---- MODULE Spec2Model ----
(***************************************************************************)
(* Browser front end of the crypto dashboard.                              *)
(*                                                                         *)
(* Three pages of script are modelled:                                     *)
(*   - static/js/main.js  : coin grid, coin modal with chart, portfolio    *)
(*                         kept in localStorage (Spec, SpecPortfolio);     *)
(*   - the legacy front end (main.js, charts.js, portfolio.js): coin       *)
(*     container, modal, chart, portfolio table (SpecLegacy).              *)
(*                                                                         *)
(* Conventions.                                                            *)
(*   - A JavaScript value that may be undefined/null is a set: {} for      *)
(*     undefined/null, {v} for the value v.                                *)
(*   - Text is a sequence of one-character strings. The rupee sign and the *)
(*     em dash of the source are written "INR" and "-".                    *)
(*   - Quantities are kept in units of 1/QtyScale coin, a fixed point that *)
(*     is exact for the prices the model draws (each divides QtyScale).    *)
(*   - Time stamps are in ticks of one hour.                               *)
(*   - The browser runs one handler to completion before the next: every   *)
(*     action is the code between two awaits.  The two awaits of one fetch *)
(*     (the response, then its body) touch only locals of the async        *)
(*     function and are taken as one step whose outcome is a rejection, a  *)
(*     non-OK response, an unparsable body or a body.                      *)
(***************************************************************************)
EXTENDS Integers, Sequences, FiniteSets, TLC

VARIABLES
    gridPc,       \* renderGrid: "loading" (awaiting the price fetch) or "ready"
    grid,         \* grid.innerHTML: the sequence of cards
    flips,        \* pending 820 ms flip timers, oldest first: the card's dataset
    chains,       \* the openCoinModal calls made so far, in call order
    header,       \* modalLogo/modalName/modalSymbol/modalAbout
    fields,       \* modalCurrent/pred3m/pred6m/pred1y
    chart,        \* the shared `chart` reference: {} or {instance}, see NewChart
    canvas,       \* chart instances attached to #priceChart and not destroyed
    onclick,      \* btnAddPortfolio.onclick: {} or {[symbol, name, price]}
    shown,        \* coinModal().show() has run
    modeQty,      \* #modeQty.checked
    inputQty,     \* #inputQty.value
    inputBudget,  \* #inputBudget.value
    storage,      \* localStorage["portfolio"]: {} or {JSON text}
    writes,       \* number of localStorage.setItem("portfolio", ...) calls
    toastBody,    \* #toastBody.textContent
    toasts,       \* number of toasts shown
    unhandled,    \* promise rejections that reached no handler
    legacy        \* the legacy front end's page state

gridVars   == <<gridPc, grid>>
modalVars  == <<header, fields, chart, canvas, onclick, shown>>
formVars   == <<modeQty, inputQty, inputBudget>>
storeVars  == <<storage, writes>>
toastVars  == <<toastBody, toasts>>
vars == <<gridPc, grid, flips, chains, header, fields, chart, canvas, onclick,
          shown, modeQty, inputQty, inputBudget, storage, writes, toastBody,
          toasts, unhandled, legacy>>

---------------------------------------------------------------------------
(* Bounds *)

MaxOpens  == 2    \* card clicks
MaxAdds   == 1    \* clicks on "add to portfolio" in Spec
MaxHist   == 1    \* historical points a history response carries
MaxSeries == 2    \* values a prediction series carries
NowTick   == 50   \* new Date() when a history response carries no point

---------------------------------------------------------------------------
(* Program constants *)

FutureDays  == 365   \* for (let i = 1; i <= 365; i++)
TicksPerDay == 24    \* setDate(getDate() + i): one day, in ticks
QtyScale    == 2 * 3 \* quantity unit: 1/QtyScale coin

INR_SYMBOL == <<"I", "N", "R">>
Dash       == <<"-">>

COINS == <<
  [id |-> "bitcoin",          symbol |-> "BTC",  name |-> "Bitcoin",      img |-> "/static/images/btc.png"],
  [id |-> "ethereum",         symbol |-> "ETH",  name |-> "Ethereum",     img |-> "/static/images/eth.png"],
  [id |-> "ripple",           symbol |-> "XRP",  name |-> "XRP",          img |-> "/static/images/xrp.png"],
  [id |-> "tether",           symbol |-> "USDT", name |-> "Tether",       img |-> "/static/images/usdt.png"],
  [id |-> "binancecoin",      symbol |-> "BNB",  name |-> "BNB",          img |-> "/static/images/bnb.png"],
  [id |-> "solana",           symbol |-> "SOL",  name |-> "Solana",       img |-> "/static/images/sol.png"],
  [id |-> "usd-coin",         symbol |-> "USDC", name |-> "USD Coin",     img |-> "/static/images/usdc.png"],
  [id |-> "dogecoin",         symbol |-> "DOGE", name |-> "Dogecoin",     img |-> "/static/images/doge.png"],
  [id |-> "tron",             symbol |-> "TRX",  name |-> "TRON",         img |-> "/static/images/trx.png"],
  [id |-> "cardano",          symbol |-> "ADA",  name |-> "Cardano",      img |-> "/static/images/ada.png"],
  [id |-> "chainlink",        symbol |-> "LINK", name |-> "Chainlink",    img |-> "/static/images/link.png"],
  [id |-> "hyperliquid",      symbol |-> "HYPE", name |-> "Hyperliquid",  img |-> "/static/images/hype.png"],
  [id |-> "stellar",          symbol |-> "XLM",  name |-> "Stellar",      img |-> "/static/images/xlm.png"],
  [id |-> "sui",              symbol |-> "SUI",  name |-> "Sui",          img |-> "/static/images/sui.png"],
  [id |-> "bitcoin-cash",     symbol |-> "BCH",  name |-> "Bitcoin Cash", img |-> "/static/images/bch.png"],
  [id |-> "hedera-hashgraph", symbol |-> "HBAR", name |-> "Hedera",       img |-> "/static/images/hbar.png"],
  [id |-> "ethena-usde",      symbol |-> "USDe", name |-> "Ethena USDe",  img |-> "/static/images/usde.png"],
  [id |-> "avalanche-2",      symbol |-> "AVAX", name |-> "Avalanche",    img |-> "/static/images/avax.png"],
  [id |-> "litecoin",         symbol |-> "LTC",  name |-> "Litecoin",     img |-> "/static/images/ltc.png"],
  [id |-> "the-open-network", symbol |-> "TON",  name |-> "Toncoin",      img |-> "/static/images/ton.png"] >>

ABOUT ==
  "BTC"  :> "Bitcoin is the first decentralized digital currency, secured by a global network..." @@
  "ETH"  :> "Ethereum is a programmable blockchain enabling smart contracts..." @@
  "XRP"  :> "XRP is designed for fast, low-cost cross-border payments..." @@
  "USDT" :> "Tether (USDT) is a fiat-pegged stablecoin..." @@
  "BNB"  :> "BNB is the native token of BNB Chain..." @@
  "SOL"  :> "Solana is a high-performance blockchain..." @@
  "USDC" :> "USD Coin is a fully-reserved stablecoin..." @@
  "DOGE" :> "Dogecoin began as a meme coin..." @@
  "TRX"  :> "TRON focuses on high throughput..." @@
  "ADA"  :> "Cardano emphasizes peer-reviewed research..." @@
  "LINK" :> "Chainlink provides decentralized oracle services..." @@
  "HYPE" :> "Hyperliquid is associated with a derivatives ecosystem..." @@
  "XLM"  :> "Stellar targets cross-border payments..." @@
  "SUI"  :> "Sui is a high-throughput L1 based on Move..." @@
  "BCH"  :> "Bitcoin Cash is a fork of Bitcoin..." @@
  "HBAR" :> "Hedera is a high-speed network using hashgraph..." @@
  "USDe" :> "Ethena USDe is a synthetic dollar..." @@
  "AVAX" :> "Avalanche is a smart contract platform..." @@
  "LTC"  :> "Litecoin is a long-standing peer-to-peer cryptocurrency..." @@
  "TON"  :> "Toncoin powers The Open Network..."

CoinIx == 1..Len(COINS)

\* the cards the user clicks: BTC and ETH
ClickedCards == {1, 2}

---------------------------------------------------------------------------
(* JavaScript values *)

Undefined == {}
Val(x)    == CHOOSE v \in x : TRUE
\* truthiness of an optional number: undefined, null and 0 are falsy
Truthy(x) == x # {} /\ x # {0}

---------------------------------------------------------------------------
(* Helpers: formatINR *)

DigitChars == <<"0", "1", "2", "3", "4", "5", "6", "7", "8", "9">>

RECURSIVE Digits(_)
Digits(n) == IF n < 10 THEN <<DigitChars[n + 1]>>
             ELSE Digits(n \div 10) \o <<DigitChars[(n % 10) + 1]>>

RECURSIVE ZeroPad(_, _)
ZeroPad(s, w) == IF Len(s) >= w THEN s ELSE ZeroPad(<<"0">> \o s, w)

\* the groups above the thousands: two digits each (en-IN)
RECURSIVE GroupLakh(_)
GroupLakh(m) == IF m < 100 THEN Digits(m)
                ELSE GroupLakh(m \div 100) \o <<",">> \o ZeroPad(Digits(m % 100), 2)

\* Intl.NumberFormat("en-IN") of a natural number
NumberFormatIN(n) == IF n < 1000 THEN Digits(n)
                     ELSE GroupLakh(n \div 1000) \o <<",">> \o ZeroPad(Digits(n % 1000), 3)

formatINR(n) == INR_SYMBOL \o NumberFormatIN(n)

\* preds.x ? formatINR(preds.x) : dash
PriceText(x) == IF Truthy(x) THEN formatINR(Val(x)) ELSE Dash

---------------------------------------------------------------------------
(* Grid *)

coinCardTemplate(c, livePrice) ==
    [symbol |-> c.symbol, id |-> c.id, name |-> c.name, img |-> c.img,
     price |-> PriceText(livePrice)]

\* prices?.[c.id]?.inr for a parsed body: {} is the JSON null
LiveInr(body, i) == IF body = {} THEN Undefined ELSE Val(body)[i]

GridWithPrices(body) == [i \in CoinIx |-> coinCardTemplate(COINS[i], LiveInr(body, i))]
\* faulty variant: the failure branch leaves the grid empty
GridFallbackEmpty == <<>>
GridFallback         == [i \in CoinIx |-> coinCardTemplate(COINS[i], Undefined)]

\* what /api/simple_price answers: the backend is external, these are samples
LivePrice(i) == IF i = 1 THEN 5000000 ELSE 950 * i
PriceBodies ==
    { {},                                                    \* null
      {[i \in CoinIx |-> Undefined]},                        \* {}
      {[i \in CoinIx |-> {LivePrice(i)}]},                   \* every coin priced
      {[i \in CoinIx |-> IF i % 3 = 0 THEN Undefined         \* some coins missing,
                         ELSE IF i % 3 = 2 THEN {0}          \* some priced 0
                         ELSE {LivePrice(i)}]} }
PriceOutcomes ==
    {[kind |-> "reject"], [kind |-> "notok"], [kind |-> "unparsable"]}
    \cup {[kind |-> "body", body |-> b] : b \in PriceBodies}

\* renderGrid resumes after `await fetchLivePricesInINR()`
RenderGrid(o) ==
    /\ gridPc = "loading"
    /\ grid' = IF o.kind = "body" THEN GridWithPrices(o.body) ELSE GridFallback
    /\ gridPc' = "ready"
    /\ UNCHANGED <<flips, chains, modalVars, formVars, storeVars, toastVars,
                   unhandled, legacy>>

\* a click on card i: the listener of line 124 starts the 820 ms flip
CardClick(i) ==
    /\ gridPc = "ready"
    /\ i \in DOMAIN grid
    /\ flips' = Append(flips, [symbol |-> grid[i].symbol, id |-> grid[i].id,
                               name |-> grid[i].name])
    /\ UNCHANGED <<gridVars, chains, modalVars, formVars, storeVars, toastVars,
                   unhandled, legacy>>

---------------------------------------------------------------------------
(* Helpers: toast *)

toast(msg) ==
    /\ toastBody' = msg
    /\ toasts' = toasts + 1

MsgLoadFailed   == <<"Failed to load coin details. Please try again.">>
MsgBadQuantity  == <<"Enter a valid quantity.">>
MsgBadBudget    == <<"Enter a valid budget (and ensure price loaded).">>
MsgAdded(name, symbol) == <<name, " (", symbol, ") added to portfolio.">>

---------------------------------------------------------------------------
(* Modal + Chart *)

NoPreds ==
    [current_price |-> Undefined, pred_3m |-> Undefined, pred_6m |-> Undefined,
     pred_1y |-> Undefined, series3m |-> Undefined, series6m |-> Undefined,
     series1y |-> Undefined]

CoinOf(symbol) == CHOOSE i \in CoinIx : COINS[i].symbol = symbol

\* what the backend answers for a coin: external, these are samples.  Every
\* sampled price divides QtyScale.
PriceOf(i) == <<2, 3, 6, 1>>[((i - 1) % 4) + 1]

HistoryBodies(i) ==
    {[prices |-> Undefined]}
    \cup {[prices |-> {[k \in 1..n |-> <<(k - 1) * TicksPerDay + i, 10 * PriceOf(i) + k>>]}]
            : n \in 0..MaxHist}
HistoryOutcomes(i) ==
    {[kind |-> "reject"], [kind |-> "unparsable"]}
    \cup {[kind |-> "body", body |-> b] : b \in HistoryBodies(i)}

SeriesFrom(v) == {[k \in 1..MaxSeries |-> v + k]}
PredictBodies(i) ==
    { [current_price |-> {PriceOf(i)}, pred_3m |-> {PriceOf(i) + 1},
       pred_6m |-> {PriceOf(i) + 2}, pred_1y |-> {PriceOf(i) + 3},
       series3m |-> SeriesFrom(PriceOf(i)), series6m |-> SeriesFrom(PriceOf(i) + 10),
       series1y |-> SeriesFrom(PriceOf(i) + 20)],
      [NoPreds EXCEPT !.current_price = {PriceOf(i)}, !.pred_3m = {PriceOf(i) + 1}],
      [NoPreds EXCEPT !.current_price = {0}, !.series1y = SeriesFrom(0)] }
PredictOutcomes(i) ==
    {[kind |-> "reject"], [kind |-> "notok"], [kind |-> "unparsable"]}
    \cup {[kind |-> "body", body |-> b] : b \in PredictBodies(i)}

\* lines 144-148
HeaderOf(d) ==
    [logo   |-> IF \E i \in CoinIx : COINS[i].symbol = d.symbol
                THEN COINS[CoinOf(d.symbol)].img ELSE "",
     name   |-> d.name,
     symbol |-> d.symbol,
     about  |-> IF d.symbol \in DOMAIN ABOUT THEN ABOUT[d.symbol] ELSE "-"]

\* lines 166-177
FieldsOf(preds) ==
    [modalCurrent |-> PriceText(preds.current_price),
     pred3m       |-> PriceText(preds.pred_3m),
     pred6m       |-> PriceText(preds.pred_6m),
     pred1y       |-> PriceText(preds.pred_1y)]

\* (hist.prices || []).map(p => ({t: new Date(p[0]), y: p[1]}))
PointsOf(hist) == IF hist.prices = {} THEN <<>> ELSE Val(hist.prices)

\* toISOString().slice(0, 10): the day a time stamp falls on
ISODate(t) == t \div TicksPerDay

labelsHistOf(points) == [k \in 1..Len(points) |-> ISODate(points[k][1])]
pricesHistOf(points) == [k \in 1..Len(points) |-> points[k][2]]

\* lines 180-186
labelsFullOf(points, now) ==
    LET lastDate == IF Len(points) > 0 THEN points[Len(points)][1] ELSE now
    IN  labelsHistOf(points)
          \o [i \in 1..FutureDays |-> ISODate(lastDate + i * TicksPerDay)]

\* faulty variant: the padding forgets to subtract the history length
histPaddedWhole(points, labelsFull) ==
    [k \in 1..Len(points) |-> {points[k][2]}]
      \o [i \in 1..Len(labelsFull) |-> {}]

\* lines 189-192; a chart value is {v}, null is {}
histPaddedOf(points, labelsFull) ==
    [k \in 1..Len(points) |-> {pricesHistOf(points)[k]}]
      \o [i \in 1..(Len(labelsFull) - Len(points)) |-> {}]

\* preds.series3m || []
SeriesData(s) == IF s = {} THEN <<>> ELSE [k \in 1..Len(Val(s)) |-> {Val(s)[k]}]

\* new Chart(ctx, {...}), lines 196-252; the instance made by call c is named c.
\* An instance is kept as the locals its configuration was built from; what
\* the configuration holds is ChartLabels and ChartDataset below.
NewChart(c, points, preds, now) ==
    [id |-> c, points |-> points, preds |-> preds, now |-> now]

\* data.labels of an instance: labelsFull
ChartLabels(inst) == labelsFullOf(inst.points, inst.now)

\* data.datasets[d - 1].data of an instance: the data of the d-th series
ChartDataset(inst, d) ==
    CASE d = 1 -> histPaddedOf(inst.points, labelsFullOf(inst.points, inst.now))
      [] d = 2 -> SeriesData(inst.preds.series3m)
      [] d = 3 -> SeriesData(inst.preds.series6m)
      [] d = 4 -> SeriesData(inst.preds.series1y)

\* faulty variant: the previous instance is not destroyed
CanvasKept == canvas

\* if (chart) chart.destroy()
CanvasAfterDestroy == IF chart = {} THEN canvas ELSE canvas \ {Val(chart).id}

\* faulty variant: the handler reads the coin from the modal header, not the closure
BindingFromHeader(ch, preds) ==
    [symbol |-> header.symbol, name |-> header.name, price |-> preds.current_price]

\* line 255-256
BindingOf(ch, preds) ==
    [symbol |-> ch.symbol, name |-> ch.name, price |-> preds.current_price]

\* faulty variant: the header is not filled when the modal is opened
OpenCoinModalNoHeader ==
    /\ flips # <<>>
    /\ chains' = Append(chains, [symbol |-> Head(flips).symbol, id |-> Head(flips).id,
                                 name |-> Head(flips).name, pc |-> "history",
                                 hist |-> {}, preds |-> {}])
    /\ flips' = Tail(flips)
    /\ UNCHANGED <<gridVars, modalVars, formVars, storeVars, toastVars, unhandled, legacy>>

\* the 820 ms timer of the oldest pending flip fires and calls openCoinModal,
\* which runs to its first await (line 151)
OpenCoinModal ==
    /\ flips # <<>>
    /\ header' = HeaderOf(Head(flips))
    /\ chains' = Append(chains, [symbol |-> Head(flips).symbol, id |-> Head(flips).id,
                                 name |-> Head(flips).name, pc |-> "history",
                                 hist |-> {}, preds |-> {}])
    /\ flips' = Tail(flips)
    /\ UNCHANGED <<gridVars, fields, chart, canvas, onclick, shown, formVars,
                   storeVars, toastVars, unhandled, legacy>>

\* catch (e) { console.error(e); toast(...) }
ChainFails(c) ==
    /\ chains' = [chains EXCEPT ![c].pc = "failed"]
    /\ toast(MsgLoadFailed)
    /\ UNCHANGED <<gridVars, flips, modalVars, formVars, storeVars, unhandled, legacy>>

\* lines 151-158: the history fetch settles
HistoryResponds(c, o) ==
    /\ c \in DOMAIN chains
    /\ chains[c].pc = "history"
    /\ IF o.kind = "body"
       THEN /\ chains' = [chains EXCEPT ![c].pc = "predict", ![c].hist = {o.body}]
            /\ UNCHANGED <<gridVars, flips, modalVars, formVars, storeVars,
                           toastVars, unhandled, legacy>>
       ELSE ChainFails(c)

\* lines 166-265, run without a break once preds is known
ShowModal(c, preds, now) ==
    /\ chains' = [k \in DOMAIN chains |->
                     IF k = c THEN [chains[k] EXCEPT !.pc = "shown", !.preds = {preds}]
                     ELSE IF chains[k].pc = "shown"
                     THEN [chains[k] EXCEPT !.pc = "replaced", !.hist = {}, !.preds = {}]
                     ELSE chains[k]]
    /\ fields' = FieldsOf(preds)
    /\ canvas' = CanvasAfterDestroy \cup {c}
    /\ chart' = {NewChart(c, PointsOf(Val(chains[c].hist)), preds, now)}
    /\ onclick' = {BindingOf(chains[c], preds)}
    /\ shown' = TRUE
    /\ UNCHANGED <<gridVars, flips, header, formVars, storeVars, toastVars,
                   unhandled, legacy>>

\* lines 161-164: the predictions fetch settles
PredictResponds(c, o, now) ==
    /\ c \in DOMAIN chains
    /\ chains[c].pc = "predict"
    /\ CASE o.kind = "body"  -> ShowModal(c, o.body, now)
         [] o.kind = "notok" -> ShowModal(c, NoPreds, now)
         [] OTHER            -> ChainFails(c)

---------------------------------------------------------------------------
(* Portfolio *)

IsDigit(ch)  == \E d \in 1..10 : DigitChars[d] = ch
DigitVal(ch) == (CHOOSE d \in 1..10 : DigitChars[d] = ch) - 1

\* the longest prefix of s made of digits, as a number; {} when it is empty
RECURSIVE DigitPrefix(_, _)
DigitPrefix(s, acc) ==
    IF s # <<>> /\ IsDigit(Head(s))
    THEN DigitPrefix(Tail(s), {10 * (IF acc = {} THEN 0 ELSE Val(acc)) + DigitVal(Head(s))})
    ELSE acc

NaN == [nan |-> TRUE, v |-> 0]

\* parseFloat of a text with no fraction and no exponent: an optional sign,
\* then digits; anything else first is NaN
parseFloat(s) ==
    LET neg  == s # <<>> /\ Head(s) = "-"
        body == IF s # <<>> /\ Head(s) \in {"-", "+"} THEN Tail(s) ELSE s
        n    == DigitPrefix(body, {})
    IN  IF n = {} THEN NaN
        ELSE [nan |-> FALSE, v |-> IF neg THEN 0 - Val(n) ELSE Val(n)]

\* value || "0"
OrZero(s) == IF s = <<>> THEN <<"0">> ELSE s

\* !x for a number: NaN and 0 are falsy
Falsy(x) == x.nan \/ x.v = 0
\* x <= 0: false for NaN
LeqZero(x) == ~x.nan /\ x.v <= 0

\* JSON text of the list: one <<symbol, name, qty>> per entry
JSONstringify(data) ==
    [k \in 1..Len(data) |-> <<data[k].symbol, data[k].name, data[k].qty>>]
JSONparse(text) ==
    [k \in 1..Len(text) |-> [symbol |-> text[k][1], name |-> text[k][2], qty |-> text[k][3]]]

\* JSON.parse(localStorage.getItem(key) || "[]")
StoredList(st) == IF st = {} THEN <<>> ELSE JSONparse(Val(st))

\* data.findIndex(x => x.symbol === symbol): 0 stands for -1
findIndex(data, symbol) ==
    IF \E k \in 1..Len(data) : data[k].symbol = symbol
    THEN CHOOSE k \in 1..Len(data) :
           /\ data[k].symbol = symbol
           /\ \A j \in 1..(k - 1) : data[j].symbol # symbol
    ELSE 0

\* faulty variant: every add pushes a new entry
MergedPush(data, symbol, name, finalQty) ==
    Append(data, [symbol |-> symbol, name |-> name, qty |-> finalQty])

\* lines 290-292
Merged(data, symbol, name, finalQty) ==
    LET idx == findIndex(data, symbol)
    IN  IF idx >= 1 THEN [data EXCEPT ![idx].qty = @ + finalQty]
        ELSE Append(data, [symbol |-> symbol, name |-> name, qty |-> finalQty])

\* faulty variant: the tests are `x <= 0` alone, which NaN passes
RejectsSignOnly(mode, qty, budget, currentPrice) ==
    IF mode THEN LeqZero(qty)
    ELSE LeqZero(budget) \/ ~Truthy(currentPrice)

\* lines 279-286: the input is refused
Rejects(mode, qty, budget, currentPrice) ==
    IF mode THEN Falsy(qty) \/ LeqZero(qty)
    ELSE Falsy(budget) \/ LeqZero(budget) \/ ~Truthy(currentPrice)

\* faulty variant: the budget is multiplied by the price
FinalQtyTimes(mode, qty, budget, currentPrice) ==
    IF mode THEN qty.v * QtyScale
    ELSE budget.v * QtyScale * Val(currentPrice)

\* lines 281 and 285, in units of 1/QtyScale
FinalQty(mode, qty, budget, currentPrice) ==
    IF mode THEN qty.v * QtyScale
    ELSE (budget.v * QtyScale) \div Val(currentPrice)

addToPortfolio(symbol, name, currentPrice) ==
    LET qty    == parseFloat(OrZero(inputQty))
        budget == parseFloat(OrZero(inputBudget))
    IN  IF Rejects(modeQty, qty, budget, currentPrice)
        THEN /\ toast(IF modeQty THEN MsgBadQuantity ELSE MsgBadBudget)
             /\ UNCHANGED <<formVars, storeVars>>
        ELSE /\ storage' = {JSONstringify(
                              Merged(StoredList(storage), symbol, name,
                                     FinalQty(modeQty, qty, budget, currentPrice)))}
             /\ writes' = writes + 1
             /\ inputQty' = <<>>
             /\ inputBudget' = <<>>
             /\ UNCHANGED modeQty
             /\ toast(MsgAdded(name, symbol))

\* a click on #btnAddPortfolio runs the handler bound at line 255
ClickAdd ==
    /\ onclick # {}
    /\ addToPortfolio(Val(onclick).symbol, Val(onclick).name, Val(onclick).price)
    /\ UNCHANGED <<gridVars, flips, chains, modalVars, unhandled, legacy>>

\* the user edits the form
TypeQty(s) ==
    /\ shown
    /\ inputQty # s
    /\ inputQty' = s
    /\ UNCHANGED <<gridVars, flips, chains, modalVars, modeQty, inputBudget,
                   storeVars, toastVars, unhandled, legacy>>

TypeBudget(s) ==
    /\ shown
    /\ inputBudget # s
    /\ inputBudget' = s
    /\ UNCHANGED <<gridVars, flips, chains, modalVars, modeQty, inputQty,
                   storeVars, toastVars, unhandled, legacy>>

SelectMode(m) ==
    /\ shown
    /\ modeQty # m
    /\ modeQty' = m
    /\ UNCHANGED <<gridVars, flips, chains, modalVars, inputQty, inputBudget,
                   storeVars, toastVars, unhandled, legacy>>

\* addToPortfolio calls made so far: every call toasts once, and so does
\* every failed openCoinModal
AddCalls == toasts - Cardinality({c \in DOMAIN chains : chains[c].pc = "failed"})

---------------------------------------------------------------------------
(* The static page *)

LegacyIdle == [page |-> "none"]

Init ==
    /\ gridPc = "loading"
    /\ grid = <<>>
    /\ flips = <<>>
    /\ chains = <<>>
    /\ header = [logo |-> "", name |-> "", symbol |-> "", about |-> ""]
    /\ fields = [modalCurrent |-> <<>>, pred3m |-> <<>>, pred6m |-> <<>>, pred1y |-> <<>>]
    /\ chart = {}
    /\ canvas = {}
    /\ onclick = {}
    /\ shown = FALSE
    /\ modeQty = TRUE
    /\ inputQty = <<>>
    /\ inputBudget = <<>>
    /\ storage = {}
    /\ writes = 0
    /\ toastBody = <<>>
    /\ toasts = 0
    /\ unhandled = 0
    /\ legacy = LegacyIdle

\* what the user types while the whole page is explored
PageInputs == {<<>>, <<"6">>}

\* the grid and the modal: the user clicks cards and leaves the form alone
NextModal ==
    \/ \E o \in PriceOutcomes : RenderGrid(o)
    \/ \E i \in ClickedCards : Len(flips) + Len(chains) < MaxOpens /\ CardClick(i)
    \/ OpenCoinModal
    \/ \E c \in DOMAIN chains : \E o \in HistoryOutcomes(CoinOf(chains[c].symbol)) :
          HistoryResponds(c, o)
    \/ \E c \in DOMAIN chains : \E o \in PredictOutcomes(CoinOf(chains[c].symbol)) :
          PredictResponds(c, o, NowTick)

SpecModal == Init /\ [][NextModal]_vars

\* the backend while the whole page is explored: it answers in full (every
\* price, MaxHist points, every prediction), answers non-OK, or fails
PagePrices     == {[kind |-> "reject"],
                   [kind |-> "body", body |-> {[i \in CoinIx |-> {LivePrice(i)}]}]}
PageHistory(i) ==
    {[kind |-> "reject"],
     [kind |-> "body",
      body |-> [prices |-> {[k \in 1..MaxHist |->
                               <<(k - 1) * TicksPerDay + i, 10 * PriceOf(i) + k>>]}]]}
PagePredict(i) ==
    {[kind |-> "reject"], [kind |-> "notok"]}
    \cup {o \in PredictOutcomes(i) : o.kind = "body" /\ o.body.pred_1y # Undefined}

\* the whole page: the user clicks cards, fills the form and clicks "add to
\* portfolio"
Next ==
    \/ \E o \in PagePrices : RenderGrid(o)
    \/ \E i \in ClickedCards : Len(flips) + Len(chains) < MaxOpens /\ CardClick(i)
    \/ OpenCoinModal
    \/ \E c \in DOMAIN chains : \E o \in PageHistory(CoinOf(chains[c].symbol)) :
          HistoryResponds(c, o)
    \/ \E c \in DOMAIN chains : \E o \in PagePredict(CoinOf(chains[c].symbol)) :
          PredictResponds(c, o, NowTick)
    \/ \E s \in PageInputs : AddCalls < MaxAdds /\ TypeQty(s)
    \/ \E s \in PageInputs : AddCalls < MaxAdds /\ TypeBudget(s)
    \/ \E m \in BOOLEAN : AddCalls < MaxAdds /\ SelectMode(m)
    \/ AddCalls < MaxAdds /\ ClickAdd

Spec == Init /\ [][Next]_vars

---------------------------------------------------------------------------
(* The portfolio form, explored from a page whose modal is open *)

MaxCalls == 2    \* clicks on "add to portfolio" in SpecPortfolio

InputStrings == { <<>>, <<"-", "1">>, <<"a", "b", "c">>, <<"1">>, <<"2">> }

\* lists a previous visit can have left under the "portfolio" key
EntryText(i, q) == <<COINS[i].symbol, COINS[i].name, q>>
PersistedLists ==
    { {}, {<<>>} }
    \cup { {<<EntryText(i, 4 * QtyScale)>>} : i \in ClickedCards }
    \cup { {<<EntryText(p[1], 4 * QtyScale), EntryText(p[2], 5 * QtyScale)>>} :
             p \in {q \in ClickedCards \X ClickedCards : q[1] # q[2]} }

\* the page after card i was clicked and its modal shown: RenderGrid,
\* CardClick(i), OpenCoinModal, HistoryResponds, PredictResponds
InitPortfolio ==
    \E i \in ClickedCards : \E preds \in PredictBodies(i) \cup {NoPreds} :
      LET d  == [symbol |-> COINS[i].symbol, id |-> COINS[i].id, name |-> COINS[i].name]
          ch == [symbol |-> d.symbol, id |-> d.id, name |-> d.name, pc |-> "shown",
                 hist |-> {[prices |-> {<<>>}]}, preds |-> {preds}]
      IN  /\ gridPc = "ready"
          /\ grid = GridFallback
          /\ flips = <<>>
          /\ chains = <<ch>>
          /\ header = HeaderOf(d)
          /\ fields = FieldsOf(preds)
          /\ chart = {NewChart(1, <<>>, preds, NowTick)}
          /\ canvas = {1}
          /\ onclick = {BindingOf(ch, preds)}
          /\ shown = TRUE
          /\ modeQty = TRUE
          /\ inputQty = <<>>
          /\ inputBudget = <<>>
          /\ storage \in PersistedLists
          /\ writes = 0
          /\ toastBody = <<>>
          /\ toasts = 0
          /\ unhandled = 0
          /\ legacy = LegacyIdle

NextPortfolio ==
    \/ \E s \in InputStrings : TypeQty(s)
    \/ \E s \in InputStrings : TypeBudget(s)
    \/ \E m \in BOOLEAN : SelectMode(m)
    \/ AddCalls < MaxCalls /\ ClickAdd

SpecPortfolio == InitPortfolio /\ [][NextPortfolio]_vars

---------------------------------------------------------------------------
(* The legacy front end: main.js, charts.js, portfolio.js *)

MaxLegacyOps == 2    \* coin clicks and addCoinToPortfolio calls
MaxPoints    == 1    \* points in a legacy history or prediction list

staticVars == <<gridPc, grid, flips, chains, header, fields, chart, canvas, onclick,
                shown, modeQty, inputQty, inputBudget, storage, writes, toastBody,
                toasts>>

\* Number.prototype.toFixed(2) of a natural number
toFixed2(n) == Digits(n) \o <<".", "0", "0">>

toUpperCase(id) ==
    CASE id = "bitcoin"  -> "BITCOIN"
      [] id = "ethereum" -> "ETHEREUM"
      [] OTHER           -> id

\* what /api/coins answers: external, these are samples
CoinsBodies ==
    { <<>>,
      [i \in 1..2 |-> [id |-> COINS[i].id, symbol |-> COINS[i].symbol,
                             name |-> COINS[i].name, image |-> COINS[i].img,
                             current_price |-> {LivePrice(i)}]],
      [i \in 1..2 |-> [id |-> COINS[i].id, symbol |-> COINS[i].symbol,
                             name |-> COINS[i].name, image |-> COINS[i].img,
                             current_price |-> IF i = 2 THEN Undefined
                                               ELSE {LivePrice(i)}]] }
LegacyOutcomes(bodies) ==
    {[kind |-> "reject"], [kind |-> "unparsable"]}
    \cup {[kind |-> "body", body |-> b] : b \in bodies}

\* what /api/predict?coin= answers
HistoryList(n) == [k \in 1..n |-> [date |-> k, price |-> k]]
PredictedList(n, base) ==
    [k \in 1..n |-> [date |-> base + k, predicted |-> 100 * base + k]]
LegacyPredictBodies ==
    { [history |-> Undefined, predictions |-> Undefined] }
    \cup { [history |-> {HistoryList(n)},
            predictions |-> {[m3 |-> PredictedList(n, 10), m6 |-> PredictedList(n, 20),
                              y1 |-> PredictedList(n, 30)]}] : n \in 0..MaxPoints }

\* what /api/coin_details answers
DetailsBodies(id) ==
    { [name |-> id, symbol |-> toUpperCase(id), market_cap_rank |-> 1,
       description |-> "about"] }

Nulls(n) == [k \in 1..n |-> {}]
Dates(list) == [k \in 1..Len(list) |-> list[k].date]
\* history.map(h => h.price), predictions["3m"].map(p => p.predicted)
Prices(list)    == [k \in 1..Len(list) |-> {list[k].price}]
Predicted(list) == [k \in 1..Len(list) |-> {list[k].predicted}]

\* renderChart: the configuration handed to new Chart (charts.js); m3, m6 and
\* y1 stand for the keys "3m", "6m" and "1y"
renderChart(history, predictions) ==
    LET prices == Prices(history)
        pred3m == Predicted(predictions.m3)
        pred6m == Predicted(predictions.m6)
        pred1y == Predicted(predictions.y1)
    IN  [labels   |-> Dates(history) \o Dates(predictions.m3) \o Dates(predictions.m6)
                        \o Dates(predictions.y1),
         datasets |-> << prices,
                         Nulls(Len(prices)) \o pred3m,
                         Nulls(Len(prices) + Len(pred3m)) \o pred6m,
                         Nulls(Len(prices) + Len(pred3m) + Len(pred6m)) \o pred1y >>]

\* the coins whose <div> is built before coin.current_price.toFixed throws
RenderedCoins(body) ==
    LET bad == {k \in 1..Len(body) : body[k].current_price = {}}
        n   == IF bad = {} THEN Len(body)
               ELSE (CHOOSE k \in bad : \A j \in bad : k <= j) - 1
    IN  [k \in 1..n |-> [id |-> body[k].id, symbol |-> body[k].symbol,
                         price |-> toFixed2(Val(body[k].current_price))]]

Remove(seq, k) == [j \in 1..(Len(seq) - 1) |-> IF j < k THEN seq[j] ELSE seq[j + 1]]

InitLegacy ==
    /\ gridPc = "none"
    /\ grid = <<>>
    /\ flips = <<>>
    /\ chains = <<>>
    /\ header = [logo |-> "", name |-> "", symbol |-> "", about |-> ""]
    /\ fields = [modalCurrent |-> <<>>, pred3m |-> <<>>, pred6m |-> <<>>, pred1y |-> <<>>]
    /\ chart = {}
    /\ canvas = {}
    /\ onclick = {}
    /\ shown = FALSE
    /\ modeQty = TRUE
    /\ inputQty = <<>>
    /\ inputBudget = <<>>
    /\ storage = {}
    /\ writes = 0
    /\ toastBody = <<>>
    /\ toasts = 0
    /\ unhandled = 0
    /\ legacy = [coinsPc     |-> "loading",  \* the /api/coins fetch of DOMContentLoaded
                 container   |-> <<>>,       \* #coin-container
                 dark        |-> FALSE,      \* body.dark-mode
                 display     |-> "none",     \* #coin-modal style.display
                 flip        |-> FALSE,      \* #coin-modal class flip
                 charts      |-> <<>>,       \* Chart instances made on #coin-chart
                 description |-> {},         \* #coin-description
                 pending     |-> <<>>,       \* fetch chains in flight
                 table       |-> <<>>,       \* rows of #portfolio-table
                 ops         |-> 0]

\* main.js, DOMContentLoaded: fetch("/api/coins").then(json).then(render)
CoinsRespond(o) ==
    /\ legacy.coinsPc = "loading"
    /\ IF o.kind = "body"
       THEN /\ legacy' = [legacy EXCEPT !.coinsPc = "done",
                                        !.container = RenderedCoins(o.body)]
            /\ unhandled' = IF Len(RenderedCoins(o.body)) < Len(o.body)
                            THEN unhandled + 1 ELSE unhandled
       ELSE /\ legacy' = [legacy EXCEPT !.coinsPc = "done"]
            /\ unhandled' = unhandled + 1
    /\ UNCHANGED staticVars

ToggleTheme ==
    /\ legacy' = [legacy EXCEPT !.dark = ~@]
    /\ UNCHANGED <<staticVars, unhandled>>

\* main.js openCoinModal(coinId), from a click on a coin <div>
LegacyOpenCoinModal(k) ==
    /\ k \in DOMAIN legacy.container
    /\ legacy.ops < MaxLegacyOps
    /\ legacy' = [legacy EXCEPT !.flip = TRUE, !.display = "block",
                                !.pending = Append(@, [kind |-> "modal",
                                                       coin |-> legacy.container[k].id,
                                                       quantity |-> 0]),
                                !.ops = @ + 1]
    /\ UNCHANGED <<staticVars, unhandled>>

CloseModal ==
    /\ legacy.display = "block"
    /\ legacy' = [legacy EXCEPT !.flip = FALSE, !.display = "none"]
    /\ UNCHANGED <<staticVars, unhandled>>

\* the .then chain of openCoinModal: renderChart, then renderCoinInfo
ModalPredictResponds(k, o) ==
    /\ k \in DOMAIN legacy.pending
    /\ legacy.pending[k].kind = "modal"
    /\ IF o.kind = "body" /\ o.body.history # {}
       THEN /\ legacy' = [legacy EXCEPT
                 !.charts = Append(@, renderChart(Val(o.body.history),
                                                  Val(o.body.predictions))),
                 !.pending = Append(Remove(@, k),
                                    [kind |-> "info", coin |-> legacy.pending[k].coin,
                                     quantity |-> 0])]
            /\ UNCHANGED unhandled
       ELSE /\ legacy' = [legacy EXCEPT !.pending = Remove(@, k)]
            /\ unhandled' = unhandled + 1
    /\ UNCHANGED staticVars

\* charts.js renderCoinInfo: fetch(...).then(json).then(write)
InfoResponds(k, o) ==
    /\ k \in DOMAIN legacy.pending
    /\ legacy.pending[k].kind = "info"
    /\ IF o.kind = "body"
       THEN /\ legacy' = [legacy EXCEPT !.description = {o.body},
                                        !.pending = Remove(@, k)]
            /\ UNCHANGED unhandled
       ELSE /\ legacy' = [legacy EXCEPT !.pending = Remove(@, k)]
            /\ unhandled' = unhandled + 1
    /\ UNCHANGED staticVars

\* portfolio.js addCoinToPortfolio(coinId, quantity)
addCoinToPortfolio(coinId, quantity) ==
    /\ legacy.ops < MaxLegacyOps
    /\ legacy' = [legacy EXCEPT !.pending = Append(@, [kind |-> "portfolio",
                                                       coin |-> coinId,
                                                       quantity |-> quantity]),
                                !.ops = @ + 1]
    /\ UNCHANGED <<staticVars, unhandled>>

\* the last element of a list, as data.history[data.history.length-1]
LastOf(list) == IF list = <<>> THEN {} ELSE {list[Len(list)]}

\* the .then chain of addCoinToPortfolio: a row, or a TypeError on an empty list
PortfolioResponds(k, o) ==
    /\ k \in DOMAIN legacy.pending
    /\ legacy.pending[k].kind = "portfolio"
    /\ IF /\ o.kind = "body"
          /\ o.body.history # {}
          /\ LastOf(Val(o.body.history)) # {}
       THEN /\ legacy' = [legacy EXCEPT
                 !.table = Append(@,
                    [coin     |-> toUpperCase(legacy.pending[k].coin),
                     quantity |-> legacy.pending[k].quantity,
                     current  |-> toFixed2(Val(LastOf(Val(o.body.history))).price),
                     pred3m   |-> toFixed2(Val(LastOf(Val(o.body.predictions).m3)).predicted),
                     pred6m   |-> toFixed2(Val(LastOf(Val(o.body.predictions).m6)).predicted),
                     pred1y   |-> toFixed2(Val(LastOf(Val(o.body.predictions).y1)).predicted)]),
                 !.pending = Remove(@, k)]
            /\ UNCHANGED unhandled
       ELSE /\ legacy' = [legacy EXCEPT !.pending = Remove(@, k)]
            /\ unhandled' = unhandled + 1
    /\ UNCHANGED staticVars

\* portfolio.js removeRow: confirm(), then the row leaves the table
removeRow(r, confirmed) ==
    /\ r \in DOMAIN legacy.table
    /\ legacy' = IF confirmed THEN [legacy EXCEPT !.table = Remove(@, r)] ELSE legacy
    /\ UNCHANGED <<staticVars, unhandled>>

NextLegacy ==
    \/ \E o \in LegacyOutcomes(CoinsBodies) : CoinsRespond(o)
    \/ ToggleTheme
    \/ \E k \in ClickedCards : LegacyOpenCoinModal(k)
    \/ CloseModal
    \/ \E k \in DOMAIN legacy.pending : \E o \in LegacyOutcomes(LegacyPredictBodies) :
          ModalPredictResponds(k, o)
    \/ \E k \in DOMAIN legacy.pending :
          \E o \in LegacyOutcomes(DetailsBodies(legacy.pending[k].coin)) :
             InfoResponds(k, o)
    \/ \E i \in ClickedCards : \E q \in 1..2 : addCoinToPortfolio(COINS[i].id, q)
    \/ \E k \in DOMAIN legacy.pending : \E o \in LegacyOutcomes(LegacyPredictBodies) :
          PortfolioResponds(k, o)
    \/ \E r \in DOMAIN legacy.table : \E ok \in BOOLEAN : removeRow(r, ok)

SpecLegacy == InitLegacy /\ [][NextLegacy]_vars

---------------------------------------------------------------------------
(* Properties *)

Unique(list) ==
    \A j, k \in DOMAIN list : j # k => list[j].symbol # list[k].symbol
EntriesOf(list, symbol) == {k \in DOMAIN list : list[k].symbol = symbol}
\* the units held under a symbol: 0 when it has no entry
UnitsOf(list, symbol) ==
    IF EntriesOf(list, symbol) = {} THEN 0
    ELSE list[CHOOSE k \in EntriesOf(list, symbol) : TRUE].qty
Positive(text) ==
    LET x == parseFloat(OrZero(text)) IN ~x.nan /\ x.v > 0
Typed(text) == parseFloat(OrZero(text)).v

\* C1: from a persisted list with at most one entry per symbol, every list
\* addToPortfolio stores has at most one entry per symbol; an accepted add
\* leaves exactly one entry for its symbol, holding what the symbol held
\* before plus the added quantity (so two adds of q1 and q2 hold q1+q2),
\* and leaves the entries of the other symbols as they were.
C1_OneEntryPerSymbol ==
    /\ Unique(StoredList(storage))
    /\ [][ /\ Unique(StoredList(storage'))
           /\ writes' # writes =>
                LET old == StoredList(storage)
                    new == StoredList(storage')
                    sym == Val(onclick).symbol
                    added == FinalQty(modeQty, parseFloat(OrZero(inputQty)),
                                      parseFloat(OrZero(inputBudget)),
                                      Val(onclick).price)
                IN  /\ Cardinality(EntriesOf(new, sym)) = 1
                    /\ UnitsOf(new, sym) = UnitsOf(old, sym) + added
                    /\ \A k \in DOMAIN old : old[k].symbol # sym => new[k] = old[k]
                    /\ Len(new) = Len(old) + (IF EntriesOf(old, sym) = {} THEN 1 ELSE 0)
         ]_vars

\* two accepted adds of 1 and 2 coins to an empty list: one entry of 3 coins
C1_Witness ==
    /\ writes = 2
    /\ Len(StoredList(storage)) = 1
    /\ StoredList(storage)[1].qty = 3 * QtyScale
    /\ StoredList(storage)[1].symbol = Val(onclick).symbol

\* C2: an addToPortfolio call whose input is refused (quantity mode with the
\* quantity missing, not a number or <= 0; budget mode with the budget
\* missing, not a number or <= 0, or with an unknown price) writes nothing
\* under the "portfolio" key and changes nothing but the one toast it shows.
C2_RejectedLeavesStorage ==
    [][ ( /\ toasts' # toasts
          /\ IF modeQty THEN ~Positive(inputQty)
             ELSE ~Positive(inputBudget) \/ Val(onclick).price = Undefined )
        => /\ storage' = storage
           /\ writes' = writes
           /\ toasts' = toasts + 1
           /\ UNCHANGED <<gridVars, flips, chains, modalVars, formVars, unhandled, legacy>>
      ]_vars

\* a positive budget refused because the price is unknown
C2_Witness ==
    /\ ~modeQty
    /\ Positive(inputBudget)
    /\ Val(onclick).price = Undefined
    /\ toastBody = MsgBadBudget
    /\ toasts = 1
    /\ writes = 0

\* C3: when renderGrid has run, the grid holds exactly one card per catalog
\* entry, in catalog order, whatever the price fetch did; a coin the
\* outcome carries no price for shows the dash.
C3_OneCardPerCoin ==
    [][ gridPc' = "ready" =>
          /\ Len(grid') = Len(COINS)
          /\ \A i \in CoinIx : /\ grid'[i].id = COINS[i].id
                               /\ grid'[i].symbol = COINS[i].symbol
                               /\ grid'[i].name = COINS[i].name
          /\ \A o \in PriceOutcomes :
               RenderGrid(o) =>
                 \A i \in CoinIx :
                   (o.kind # "body" \/ o.body = {} \/ Val(o.body)[i] = Undefined)
                     => grid'[i].price = Dash
      ]_vars

\* the grid after a failed price fetch: every card, each with the dash
C3_Witness ==
    /\ gridPc = "ready"
    /\ Len(grid) = Len(COINS)
    /\ \A i \in CoinIx : grid[i].price = Dash

\* C4: at most one chart instance is attached to the canvas, and it is the
\* one the shared chart reference holds; once a modal has been shown there
\* is exactly one.
C4_OneLiveChart ==
    /\ Cardinality(canvas) <= 1
    /\ chart = {} => canvas = {}
    /\ chart # {} => canvas = {Val(chart).id}
    /\ (\E c \in DOMAIN chains : chains[c].pc = "shown") => Cardinality(canvas) = 1

\* coin A's modal was shown, then coin B's: one instance on the canvas
C4_Witness ==
    \E a, b \in DOMAIN chains :
        /\ chains[a].pc = "replaced"
        /\ chains[b].pc = "shown"
        /\ chains[a].symbol # chains[b].symbol
        /\ canvas = {b}

\* C5: no fetch of the program ends in a promise rejection nobody handles.
C5_NoUnhandledRejection == unhandled = 0

\* the legacy page after its /api/coins fetch was rejected: nothing rendered,
\* one rejection no handler took
C5_Witness ==
    /\ legacy.coinsPc = "done"
    /\ legacy.container = <<>>
    /\ unhandled = 1

\* C6: an accepted budget-mode add of budget B at price P adds B/P; a
\* quantity-mode add of q > 0 is accepted and adds q whatever the price is
\* (known, unknown or zero).
C6_AddedQuantity ==
    [][ toasts' # toasts =>
          LET sym   == Val(onclick).symbol
              price == Val(onclick).price
              delta == UnitsOf(StoredList(storage'), sym) - UnitsOf(StoredList(storage), sym)
          IN  /\ (modeQty /\ Positive(inputQty)) =>
                   /\ writes' = writes + 1
                   /\ delta = Typed(inputQty) * QtyScale
              /\ (~modeQty /\ Positive(inputBudget) /\ Truthy(price)) =>
                   /\ writes' = writes + 1
                   /\ delta * Val(price) = Typed(inputBudget) * QtyScale
      ]_vars

\* a quantity-mode add accepted while the current price is unknown
C6_Witness ==
    /\ Val(onclick).price = Undefined
    /\ writes = 1
    /\ toasts = 1
    /\ UnitsOf(StoredList(storage), Val(onclick).symbol) \in {QtyScale, 2 * QtyScale}

\* the chain whose chart is on the canvas
ChartChain == chains[Val(chart).id]
ChartPoints == PointsOf(Val(ChartChain.hist))

\* C7: with n historical points (also 0, also no prices field) the label
\* axis has n + 365 entries and so has the padded historical series: the n
\* historical prices in order, then 365 empty values.
C7_AxisLength ==
    chart # {} =>
      LET n == Len(ChartPoints)
      IN  /\ Len(ChartLabels(Val(chart))) = n + FutureDays
          /\ ChartDataset(Val(chart), 1)
               = [k \in 1..(n + FutureDays) |->
                    IF k <= n THEN {ChartPoints[k][2]} ELSE {}]

\* a chart built from a history response without a prices field
C7_Witness ==
    /\ chart # {}
    /\ Val(ChartChain.hist).prices = Undefined
    /\ Len(ChartLabels(Val(chart))) = FutureDays
    /\ Len(ChartDataset(Val(chart), 1)) = FutureDays

\* the series the predictions response carried, in dataset order
ChartSeries ==
    LET p == Val(ChartChain.preds) IN <<p.series3m, p.series6m, p.series1y>>

\* C8: with n historical points, the k-th value of each prediction series
\* sits at index n + k of the chart's axis, and no prediction value sits on
\* a historical date.  (A dataset's j-th value is drawn on the j-th label.)
C8_PredictionsAfterHistory ==
    chart # {} =>
      LET n == Len(ChartPoints)
      IN  \A d \in 1..3 :
            LET data == ChartDataset(Val(chart), d + 1)
            IN  /\ \A j \in 1..n : j \in DOMAIN data => data[j] = {}
                /\ ChartSeries[d] # {} =>
                     \A k \in DOMAIN Val(ChartSeries[d]) :
                        /\ n + k \in DOMAIN data
                        /\ data[n + k] = {Val(ChartSeries[d])[k]}

\* a chart with a historical point whose first 3-month prediction is drawn
\* on that point's date
C8_Witness ==
    /\ chart # {}
    /\ Len(ChartPoints) >= 1
    /\ ChartSeries[1] # {}
    /\ ChartDataset(Val(chart), 2)[1] = {Val(ChartSeries[1])[1]}
    /\ ChartLabels(Val(chart))[1] = ISODate(ChartPoints[1][1])

\* C9: the price fields, the chart and the add-to-portfolio binding all come
\* from one call of openCoinModal, the one that resumed last after its
\* predictions fetch, whichever call was made first.
C9_LastResumedWins ==
    /\ Cardinality({c \in DOMAIN chains : chains[c].pc = "shown"}) <= 1
    /\ \A c \in DOMAIN chains :
         chains[c].pc = "shown" =>
           LET p == Val(chains[c].preds)
           IN  /\ fields = FieldsOf(p)
               /\ chart # {} /\ Val(chart).id = c
               /\ ChartDataset(Val(chart), 2) = SeriesData(p.series3m)
               /\ ChartDataset(Val(chart), 3) = SeriesData(p.series6m)
               /\ ChartDataset(Val(chart), 4) = SeriesData(p.series1y)
               /\ onclick = {[symbol |-> chains[c].symbol, name |-> chains[c].name,
                              price |-> p.current_price]}

\* two overlapping opens, both completed, the first-made call resuming last
C9_Witness ==
    /\ Len(chains) = 2
    /\ chains[1].pc = "shown"
    /\ chains[2].pc = "replaced"
    /\ chains[1].symbol # chains[2].symbol
    /\ Val(chains[1].preds).current_price # Undefined
    /\ Val(onclick).symbol = chains[1].symbol

\* C10: the header always shows the coin of the latest openCoinModal call,
\* while the add-to-portfolio click adds the coin and price of the call that
\* resumed last: the two can differ.
C10_HeaderFollowsLastCall ==
    /\ [](chains # <<>> =>
            /\ header.symbol = chains[Len(chains)].symbol
            /\ header.name = chains[Len(chains)].name)
    /\ [][ writes' # writes =>
             \E c \in DOMAIN chains :
                /\ chains[c].pc = "shown"
                /\ LET new == StoredList(storage')
                       old == StoredList(storage)
                       sym == chains[c].symbol
                   IN  /\ EntriesOf(new, sym) # {}
                       /\ \A k \in DOMAIN old : old[k].symbol # sym => new[k] = old[k]
                       /\ ~modeQty =>
                            (UnitsOf(new, sym) - UnitsOf(old, sym))
                              * Val(Val(chains[c].preds).current_price)
                            = Typed(inputBudget) * QtyScale
         ]_vars

\* coin A opened, then coin B; B's chain finished, then A's; the header shows
\* B, the price fields show A and the click has added A at A's price
C10_Witness ==
    /\ Len(chains) = 2
    /\ chains[1].pc = "shown"
    /\ chains[2].pc = "replaced"
    /\ header.symbol = chains[2].symbol
    /\ header.symbol # chains[1].symbol
    /\ fields = FieldsOf(Val(chains[1].preds))
    /\ Val(chart).id = 1
    /\ writes = 1
    /\ LET list == StoredList(storage)
       IN  /\ Len(list) = 1
           /\ list[1].symbol = chains[1].symbol
           /\ list[1].qty * PriceOf(CoinOf(chains[1].symbol)) = 6 * QtyScale

====
